---------------------------- MODULE Spec2Model ----------------------------
(***************************************************************************)
(* Dashboard aggregation layer of NETIZEN                                  *)
(* (src/controllers/dashboardController.js over the mongoose schemas of    *)
(* src/models/dashboardModel.js).                                          *)
(*                                                                         *)
(* The five handlers are async functions: each `await` on a store access   *)
(* is a point where other requests run.  One action of the model is one    *)
(* store access taking effect together with the synchronous code that      *)
(* follows it up to the next await (or up to the response).                *)
(***************************************************************************)
EXTENDS Integers, Sequences, FiniteSets, TLC

VARIABLES
  activity,   \* Activity collection: sequence of documents, in insertion order
  search,     \* Search collection
  message,    \* Message collection
  content,    \* Content collection
  user,       \* User collection
  now,        \* the wall clock (Date.now)
  req         \* the requests: position in the handler, locals, responses sent

vars == <<activity, search, message, content, user, now, req>>

(***************************************************************************)
(* Bounds of the model                                                     *)
(***************************************************************************)
MaxSolo == 1       \* requests in the models of one route
MaxClock == 1      \* the clock runs 0..MaxClock
MaxActivity == 6   \* prior Activity documents in the home-page model
MaxMessage == 21   \* Message documents in the inbox model
MaxContent == 11   \* Content documents in the search model
MaxUser == 6       \* User documents in the search model
MaxSearch == 16    \* prior Search documents in the search model
MaxLive == 2       \* live events in the live-content model

(***************************************************************************)
(* Program constants                                                       *)
(***************************************************************************)
HomeActivityLimit == 5
HomeContentLimit == 3
NotificationsPlaceholder == 5
TasksPlaceholder == 8
ExcerptLen == 100
RecentSearchLimit == 5
PopularSearchLimit == 5
ContentResultLimit == 10
UserResultLimit == 5
InboxLimit == 20
ForYouActivityLimit == 50
ForYouSearchLimit == 10
RecommendedLimit == 5
SuggestedLimit == 3
TrendingLimit == 5
UpcomingLimit == 5
RecordingsLimit == 5
StatusOk == 200
StatusError == 500
DefaultResults == 0

\* Requests are numbered.  Solo are the requests of the models of one route;
\* Pair are the two requests of the models whose subject is two requests in
\* flight together.
Solo == 1..MaxSolo
Pair == {1, 2}
Reqs == Solo \cup Pair

\* An absent (undefined) string field or query parameter, and an absent Date.
Undefined == <<"undefined">>
NoDate == -1

Min(a, b) == IF a < b THEN a ELSE b

(***************************************************************************)
(* Strings are sequences of characters.  A query is used as a regular      *)
(* expression with option 'i': "." matches any character, letters match    *)
(* whatever their case, and an unbalanced "(" is not a pattern at all.     *)
(***************************************************************************)
Fold(c) == IF c = "A" THEN "a" ELSE IF c = "B" THEN "b" ELSE c

CharMatches(p, c) == p = "." \/ Fold(p) = Fold(c)

ValidRegExp(q) == \A i \in 1..Len(q) : q[i] # "("

\* { field: { $regex: q, $options: 'i' } } : the pattern matches somewhere in s
RegexMatches(q, s) ==
  /\ s # Undefined
  /\ \E k \in 0..(Len(s) - Len(q)) :
       \A i \in 1..Len(q) : CharMatches(q[i], s[k + i])

\* Variant: only an absent query is falsy.
Defined(q) == q # Undefined

\* `if (query)`: undefined and "" are falsy
Truthy(q) == q # Undefined /\ q # <<>>

\* s.substring(0, n)
Substring(s, n) == SubSeq(s, 1, Min(n, Len(s)))

\* s contains t as a contiguous piece, character for character
Contains(s, t) ==
  \E k \in 0..(Len(s) - Len(t)) : \A i \in 1..Len(t) : s[k + i] = t[i]

(***************************************************************************)
(* Queries on a collection.  A collection is a sequence; a document is     *)
(* named by its index.                                                     *)
(***************************************************************************)
Ids(coll) == 1..Len(coll)

MaxElems(S, key) == {x \in S : \A y \in S : key[y] <= key[x]}

\* .sort({key: -1}).limit(k): every order the sort allows (ties are in an
\* unspecified order).
RECURSIVE SortDescLimit(_, _, _)
SortDescLimit(S, key, k) ==
  IF k = 0 \/ S = {} THEN {<<>>}
  ELSE UNION {{<<m>> \o t : t \in SortDescLimit(S \ {m}, key, k - 1)} :
                m \in MaxElems(S, key)}

SortAscLimit(S, key, k) == SortDescLimit(S, [x \in S |-> 0 - key[x]], k)

\* The elements of a set of numbers in increasing order.
RECURSIVE SeqOfSet(_)
SeqOfSet(S) ==
  IF S = {} THEN <<>>
  ELSE LET m == CHOOSE x \in S : \A y \in S : x <= y
       IN <<m>> \o SeqOfSet(S \ {m})

\* .limit(k) without a sort: the first k matching documents in the store's
\* natural order, which for these collections (nothing is ever deleted) is
\* the order of insertion.
Limit(S, k) == SubSeq(SeqOfSet(S), 1, Min(k, Cardinality(S)))

Range(s) == {s[i] : i \in 1..Len(s)}

(***************************************************************************)
(* Documents                                                               *)
(***************************************************************************)
\* ActivitySchema; timestamp defaults to Date.now
ActivityDoc(userId, type, details) ==
  [user |-> userId, type |-> type, details |-> details, timestamp |-> now]

\* SearchSchema; timestamp defaults to Date.now, results to 0
SearchDoc(userId, query) ==
  [user |-> userId, query |-> query, timestamp |-> now, results |-> DefaultResults]

(***************************************************************************)
(* Requests                                                                *)
(***************************************************************************)
NoLocals ==
  [recentActivities |-> <<>>, unreadMessages |-> 0,
   recentSearches |-> <<>>, popularSearches |-> <<>>,
   contentResults |-> <<>>, results |-> <<>>,
   searchQueries |-> <<>>, recommendedContent |-> <<>>, suggestedUsers |-> <<>>,
   nowDate |-> NoDate, currentLiveEvents |-> <<>>, upcomingEvents |-> <<>>]

IdleReq ==
  [pc |-> "idle", op |-> "none", userId |-> 0, query |-> Undefined,
   logOutcome |-> "none", logDoc |-> 0, searchDoc |-> 0, updatedDoc |-> 0,
   errKind |-> "none", loc |-> NoLocals, sent |-> <<>>]

SuccessEnvelope(data) == [status |-> StatusOk, success |-> TRUE, data |-> data]

FailureEnvelope(msg) == [status |-> StatusError, success |-> FALSE, message |-> msg]

\* res.status(200).json({success: true, data}); the handler returns and its
\* locals are gone.
Respond(rq, data) ==
  [rq EXCEPT !.pc = "done", !.loc = NoLocals,
             !.sent = Append(@, SuccessEnvelope(data))]

\* Variant: the catch block answers with what the handler has gathered.
CatchSendsPartialData(rq, kind, msg) ==
  [rq EXCEPT !.pc = "done", !.errKind = kind, !.loc = NoLocals,
             !.sent = Append(@, SuccessEnvelope(rq.loc))]

\* catch (error) { res.status(500).json({success: false, message: error.message}) }
\* kind: "store" when a store access rejected, "thrown" when the handler's own
\* code threw.
Catch(rq, kind, msg) ==
  [rq EXCEPT !.pc = "done", !.errKind = kind, !.loc = NoLocals,
             !.sent = Append(@, FailureEnvelope(msg))]

(***************************************************************************)
(* A request arrives (the Auth Gate has resolved req.user.id).             *)
(***************************************************************************)
\* getSearchPage logs and records the search only `if (query)`.
FirstStep(op, query) ==
  IF op = "search" /\ ~Truthy(query) THEN "searchFindRecent" ELSE "log"

Arrive(r, ops, userIds, queries) ==
  /\ req[r].pc = "idle"
  /\ \E op \in ops, u \in userIds, q \in queries :
       /\ (op = "search" \/ q = Undefined)
       /\ req' = [req EXCEPT ![r] = [IdleReq EXCEPT !.pc = FirstStep(op, q),
                                       !.op = op, !.userId = u, !.query = q]]
  /\ UNCHANGED <<activity, search, message, content, user, now>>

\* Date.now advances between any two steps, or does not.
Tick ==
  /\ now < MaxClock
  /\ now' = now + 1
  /\ UNCHANGED <<activity, search, message, content, user, req>>

(***************************************************************************)
(* logActivity(userId, type, details)                                      *)
(***************************************************************************)
\* Variant: every operation is logged as a view.
LogTypeAlwaysView(op) == "view"

LogType(op) == IF op = "search" THEN "search" ELSE "view"

LogDetails(op, query) ==
  CASE op = "home" -> <<"dashboard home">>
    [] op = "search" -> query
    [] op = "inbox" -> <<"inbox">>
    [] op = "foryou" -> <<"for you content">>
    [] op = "live" -> <<"live content">>

AfterLog(op) ==
  CASE op = "home" -> "homeFindActivity"
    [] op = "search" -> "searchCreate"
    [] op = "inbox" -> "inboxFind"
    [] op = "foryou" -> "forYouFindActivity"
    [] op = "live" -> "liveFindCurrent"

\* The request once logActivity has returned: its catch swallows a rejected
\* Activity.create.  getLiveContent then reads the clock (const now = new Date()).
Logged(rq, ok, docId) ==
  [rq EXCEPT !.pc = AfterLog(rq.op),
             !.logOutcome = IF ok THEN "ok" ELSE "failed",
             !.logDoc = IF ok THEN docId ELSE 0,
             !.loc.nowDate = IF rq.op = "live" THEN now ELSE NoDate]

LogActivity(r) ==
  /\ req[r].pc = "log"
  /\ \E ok \in BOOLEAN :
       /\ activity' = IF ok
                       THEN Append(activity,
                                   ActivityDoc(req[r].userId, LogType(req[r].op),
                                               LogDetails(req[r].op, req[r].query)))
                       ELSE activity
       /\ req' = [req EXCEPT ![r] = Logged(req[r], ok, Len(activity) + 1)]
  /\ UNCHANGED <<search, message, content, user, now>>

(***************************************************************************)
(* getHomePage                                                             *)
(***************************************************************************)
\* Variant: the find has no {user} filter.
RecentActivitiesOfAnyone(userId) ==
  SortDescLimit(Ids(activity),
                [i \in Ids(activity) |-> activity[i].timestamp],
                HomeActivityLimit)

\* Activity.find({user}).sort({timestamp: -1}).limit(5)
HomeRecentActivities(userId) ==
  SortDescLimit({i \in Ids(activity) : activity[i].user = userId},
                [i \in Ids(activity) |-> activity[i].timestamp],
                HomeActivityLimit)

HomeFindActivity(r) ==
  /\ req[r].pc = "homeFindActivity"
  /\ \/ \E res \in HomeRecentActivities(req[r].userId) :
          req' = [req EXCEPT ![r].pc = "homeCountUnread",
                             ![r].loc.recentActivities = res]
     \/ req' = [req EXCEPT ![r] = Catch(req[r], "store", "Activity.find failed")]
  /\ UNCHANGED <<activity, search, message, content, user, now>>

\* Message.countDocuments({recipient, isRead: false})
UnreadMessages(userId) ==
  Cardinality({i \in Ids(message) :
                 message[i].recipient = userId /\ ~message[i].isRead})

HomeCountUnread(r) ==
  /\ req[r].pc = "homeCountUnread"
  /\ \/ req' = [req EXCEPT ![r].pc = "homeFindContent",
                            ![r].loc.unreadMessages = UnreadMessages(req[r].userId)]
     \/ req' = [req EXCEPT ![r] = Catch(req[r], "store", "Message.countDocuments failed")]
  /\ UNCHANGED <<activity, search, message, content, user, now>>

\* Content.find().sort({createdAt: -1}).limit(3)
HomeRecentContent ==
  SortDescLimit(Ids(content), [i \in Ids(content) |-> content[i].createdAt],
                HomeContentLimit)

\* content.description || content.content.substring(0, 100) throws when the
\* document has neither a description nor a content.
ExcerptThrows(c) == ~Truthy(c.description) /\ c.content = Undefined

Excerpt(c) ==
  IF Truthy(c.description) THEN c.description ELSE Substring(c.content, ExcerptLen)

HomeData(rq, recentContent) ==
  [recentActivity |-> [k \in 1..Len(rq.loc.recentActivities) |->
                         activity[rq.loc.recentActivities[k]]],
   quickStats |-> [notifications |-> NotificationsPlaceholder,
                   messages |-> rq.loc.unreadMessages,
                   tasks |-> TasksPlaceholder],
   announcements |-> [k \in 1..Len(recentContent) |->
                        [id |-> recentContent[k],
                         title |-> content[recentContent[k]].title,
                         content |-> Excerpt(content[recentContent[k]])]]]

HomeFindContent(r) ==
  /\ req[r].pc = "homeFindContent"
  /\ \/ \E res \in HomeRecentContent :
          req' = [req EXCEPT ![r] =
                    IF \E k \in 1..Len(res) : ExcerptThrows(content[res[k]])
                    THEN Catch(req[r], "thrown", "TypeError: substring of undefined")
                    ELSE Respond(req[r], HomeData(req[r], res))]
     \/ req' = [req EXCEPT ![r] = Catch(req[r], "store", "Content.find failed")]
  /\ UNCHANGED <<activity, search, message, content, user, now>>

(***************************************************************************)
(* getSearchPage                                                           *)
(***************************************************************************)
SearchCreate(r) ==
  /\ req[r].pc = "searchCreate"
  /\ \/ /\ search' = Append(search, SearchDoc(req[r].userId, req[r].query))
        /\ req' = [req EXCEPT ![r].pc = "searchFindRecent",
                              ![r].searchDoc = Len(search) + 1]
     \/ /\ req' = [req EXCEPT ![r] = Catch(req[r], "store", "Search.create failed")]
        /\ UNCHANGED search
  /\ UNCHANGED <<activity, message, content, user, now>>

\* Search.find({user}).sort({timestamp: -1}).limit(5).select('query')
RecentSearches(userId) ==
  SortDescLimit({i \in Ids(search) : search[i].user = userId},
                [i \in Ids(search) |-> search[i].timestamp],
                RecentSearchLimit)

\* recentSearches.map(s => s.query)
QueriesOf(docs) == [k \in 1..Len(docs) |-> search[docs[k]].query]

SearchFindRecent(r) ==
  /\ req[r].pc = "searchFindRecent"
  /\ \/ \E res \in RecentSearches(req[r].userId) :
          req' = [req EXCEPT ![r].pc = "searchAggregate",
                             ![r].loc.recentSearches = res]
     \/ req' = [req EXCEPT ![r] = Catch(req[r], "store", "Search.find failed")]
  /\ UNCHANGED <<activity, search, message, content, user, now>>

\* $group: {_id: '$query', count: {$sum: 1}}
QueryCount(q) == Cardinality({i \in Ids(search) : search[i].query = q})

\* Search.aggregate([$group, {$sort: {count: -1}}, {$limit: 5}]), mapped to _id
PopularSearches ==
  LET groups == {search[i].query : i \in Ids(search)}
  IN SortDescLimit(groups, [q \in groups |-> QueryCount(q)], PopularSearchLimit)

SearchData(rq, popular, results) ==
  [recentSearches |-> QueriesOf(rq.loc.recentSearches),
   popularSearches |-> popular,
   results |-> results]

\* After the aggregate: without a query the handler responds with
\* results = []; with one it builds the Content filter, where
\* new RegExp(query, 'i') throws on a query that is no pattern.
AfterAggregate(rq, popular) ==
  IF ~Truthy(rq.query) THEN Respond(rq, SearchData(rq, popular, <<>>))
  ELSE IF ~ValidRegExp(rq.query)
       THEN Catch(rq, "thrown", "SyntaxError: Invalid regular expression")
       ELSE [rq EXCEPT !.pc = "searchFindContent", !.loc.popularSearches = popular]

SearchAggregate(r) ==
  /\ req[r].pc = "searchAggregate"
  /\ \/ \E res \in PopularSearches :
          req' = [req EXCEPT ![r] = AfterAggregate(req[r], res)]
     \/ req' = [req EXCEPT ![r] = Catch(req[r], "store", "Search.aggregate failed")]
  /\ UNCHANGED <<activity, search, message, content, user, now>>

\* $or: [{title: $regex}, {description: $regex}, {tags: {$in: [RegExp]}}]
ContentMatches(c, q) ==
  \/ RegexMatches(q, c.title)
  \/ RegexMatches(q, c.description)
  \/ \E t \in c.tags : RegexMatches(q, t)

\* Content.find({...}).limit(10)
SearchContent(q) ==
  Limit({i \in Ids(content) : ContentMatches(content[i], q)}, ContentResultLimit)

SearchFindContent(r) ==
  /\ req[r].pc = "searchFindContent"
  /\ \/ req' = [req EXCEPT ![r].pc = "searchFindUsers",
                            ![r].loc.contentResults = SearchContent(req[r].query)]
     \/ req' = [req EXCEPT ![r] = Catch(req[r], "store", "Content.find failed")]
  /\ UNCHANGED <<activity, search, message, content, user, now>>

\* $or: [{name: $regex}, {email: $regex}]
UserMatches(u, q) == RegexMatches(q, u.name) \/ RegexMatches(q, u.email)

\* User.find({...}).limit(5)
SearchUsers(q) ==
  Limit({i \in Ids(user) : UserMatches(user[i], q)}, UserResultLimit)

\* `Content matches "${query}"`, `User matches "${query}"`
MatchReason(kind, q) == <<kind, " matches ", "\"">> \o q \o <<"\"">>

\* Variant: the user results come first.
UsersBeforeContent(contentResults, userResults, q) ==
  [k \in 1..Len(userResults) |->
     [id |-> userResults[k], type |-> "user",
      matchReason |-> MatchReason("User", q)]]
  \o
  [k \in 1..Len(contentResults) |->
     [id |-> contentResults[k], type |-> "content",
      matchReason |-> MatchReason("Content", q)]]

\* results = [...formattedContentResults, ...formattedUserResults]
FormatResults(contentResults, userResults, q) ==
  [k \in 1..Len(contentResults) |->
     [id |-> contentResults[k], type |-> "content",
      matchReason |-> MatchReason("Content", q)]]
  \o
  [k \in 1..Len(userResults) |->
     [id |-> userResults[k], type |-> "user",
      matchReason |-> MatchReason("User", q)]]

SearchFindUsers(r) ==
  /\ req[r].pc = "searchFindUsers"
  /\ \/ req' = [req EXCEPT ![r].pc = "searchUpdate",
                            ![r].loc.results =
                               FormatResults(req[r].loc.contentResults,
                                             SearchUsers(req[r].query),
                                             req[r].query)]
     \/ req' = [req EXCEPT ![r] = Catch(req[r], "store", "User.find failed")]
  /\ UNCHANGED <<activity, search, message, content, user, now>>

\* Search.findOneAndUpdate({user, query}, {results}): the filter has no sort,
\* so which of the matching documents is "the one" is up to the store.
UpdateTargets(userId, q) ==
  {i \in Ids(search) : search[i].user = userId /\ search[i].query = q}

\* Variant: updateMany, every document with the target's user and query.
UpdateEveryMatch(coll, target, count) ==
  [i \in Ids(coll) |->
     IF coll[i].user = coll[target].user /\ coll[i].query = coll[target].query
     THEN [coll[i] EXCEPT !.results = count]
     ELSE coll[i]]

\* The collection after the update of document `target`.
FindOneAndUpdate(coll, target, count) ==
  [coll EXCEPT ![target].results = count]

SearchUpdate(r) ==
  /\ req[r].pc = "searchUpdate"
  /\ \/ \E target \in UpdateTargets(req[r].userId, req[r].query) :
          /\ search' = FindOneAndUpdate(search, target, Len(req[r].loc.results))
          /\ req' = [req EXCEPT ![r] =
                       Respond([req[r] EXCEPT !.updatedDoc = target],
                               SearchData(req[r], req[r].loc.popularSearches,
                                          req[r].loc.results))]
     \/ /\ req' = [req EXCEPT ![r] =
                     Catch(req[r], "store", "Search.findOneAndUpdate failed")]
        /\ UNCHANGED search
  /\ UNCHANGED <<activity, message, content, user, now>>

(***************************************************************************)
(* getInbox                                                                *)
(***************************************************************************)
\* Message.find({recipient}).sort({createdAt: -1}).populate('sender').limit(20)
InboxMessages(userId) ==
  SortDescLimit({i \in Ids(message) : message[i].recipient = userId},
                [i \in Ids(message) |-> message[i].createdAt],
                InboxLimit)

\* Variant: the count has no isRead filter.
PageLength(messages) == Len(messages)

\* messages.filter(msg => !msg.isRead).length
InboxUnreadCount(messages) ==
  Cardinality({k \in 1..Len(messages) : ~message[messages[k]].isRead})

\* msg.content.substring(0, 100) + (msg.content.length > 100 ? '...' : '')
Preview(body) ==
  Substring(body, ExcerptLen) \o (IF Len(body) > ExcerptLen THEN <<"...">> ELSE <<>>)

InboxData(messages) ==
  [unreadCount |-> InboxUnreadCount(messages),
   messages |-> [k \in 1..Len(messages) |->
                   [id |-> messages[k],
                    from |-> [id |-> message[messages[k]].sender,
                              name |-> user[message[messages[k]].sender].name],
                    subject |-> message[messages[k]].subject,
                    preview |-> Preview(message[messages[k]].content),
                    isRead |-> message[messages[k]].isRead,
                    timestamp |-> message[messages[k]].createdAt]]]

InboxFind(r) ==
  /\ req[r].pc = "inboxFind"
  /\ \/ \E res \in InboxMessages(req[r].userId) :
          req' = [req EXCEPT ![r] = Respond(req[r], InboxData(res))]
     \/ req' = [req EXCEPT ![r] = Catch(req[r], "store", "Message.find failed")]
  /\ UNCHANGED <<activity, search, message, content, user, now>>

(***************************************************************************)
(* getForYouContent                                                        *)
(***************************************************************************)
\* Activity.find({user}).sort({timestamp: -1}).limit(50): read, never used
ForYouFindActivity(r) ==
  /\ req[r].pc = "forYouFindActivity"
  /\ \/ req' = [req EXCEPT ![r].pc = "forYouFindSearch"]
     \/ req' = [req EXCEPT ![r] = Catch(req[r], "store", "Activity.find failed")]
  /\ UNCHANGED <<activity, search, message, content, user, now>>

\* Search.find({user}).select('query').limit(10), mapped to the queries
ForYouSearchQueries(userId) ==
  QueriesOf(Limit({i \in Ids(search) : search[i].user = userId}, ForYouSearchLimit))

\* searchQueries.map(q => new RegExp(q, 'i')) throws on a stored query that
\* is no pattern.
AfterForYouSearch(rq, queries) ==
  IF \E k \in 1..Len(queries) : ~ValidRegExp(queries[k])
  THEN Catch(rq, "thrown", "SyntaxError: Invalid regular expression")
  ELSE [rq EXCEPT !.pc = "forYouFindContent", !.loc.searchQueries = queries]

ForYouFindSearch(r) ==
  /\ req[r].pc = "forYouFindSearch"
  /\ \/ req' = [req EXCEPT ![r] =
                    AfterForYouSearch(req[r], ForYouSearchQueries(req[r].userId))]
     \/ req' = [req EXCEPT ![r] = Catch(req[r], "store", "Search.find failed")]
  /\ UNCHANGED <<activity, search, message, content, user, now>>

\* $or: [{tags: {$in: regexes}}, {title: {$in: regexes}}],
\* .limit(5).sort({createdAt: -1})
RecommendedContent(queries) ==
  SortDescLimit({i \in Ids(content) :
                   \E k \in 1..Len(queries) :
                     \/ \E t \in content[i].tags : RegexMatches(queries[k], t)
                     \/ RegexMatches(queries[k], content[i].title)},
                [i \in Ids(content) |-> content[i].createdAt],
                RecommendedLimit)

ForYouFindContent(r) ==
  /\ req[r].pc = "forYouFindContent"
  /\ \/ \E res \in RecommendedContent(req[r].loc.searchQueries) :
          req' = [req EXCEPT ![r].pc = "forYouFindUsers",
                             ![r].loc.recommendedContent = res]
     \/ req' = [req EXCEPT ![r] = Catch(req[r], "store", "Content.find failed")]
  /\ UNCHANGED <<activity, search, message, content, user, now>>

\* User.find({_id: {$ne: userId}}).limit(3)
SuggestedUsers(userId) == Limit(Ids(user) \ {userId}, SuggestedLimit)

ForYouFindUsers(r) ==
  /\ req[r].pc = "forYouFindUsers"
  /\ \/ req' = [req EXCEPT ![r].pc = "forYouAggregate",
                            ![r].loc.suggestedUsers = SuggestedUsers(req[r].userId)]
     \/ req' = [req EXCEPT ![r] = Catch(req[r], "store", "User.find failed")]
  /\ UNCHANGED <<activity, search, message, content, user, now>>

\* Content.aggregate([$unwind tags, $group by tag, $sort count desc, $limit 5])
TrendingTags ==
  LET tags == UNION {content[i].tags : i \in Ids(content)}
  IN SortDescLimit(tags,
                   [t \in tags |-> Cardinality({i \in Ids(content) : t \in content[i].tags})],
                   TrendingLimit)

\* The random mutualConnections and the readTime label are display
\* placeholders and are left out of the payload.
ForYouData(rq, trending) ==
  [recommendedContent |-> [k \in 1..Len(rq.loc.recommendedContent) |->
                             [id |-> rq.loc.recommendedContent[k],
                              title |-> content[rq.loc.recommendedContent[k]].title]],
   suggestedConnections |-> [k \in 1..Len(rq.loc.suggestedUsers) |->
                               [id |-> rq.loc.suggestedUsers[k],
                                name |-> user[rq.loc.suggestedUsers[k]].name,
                                email |-> user[rq.loc.suggestedUsers[k]].email]],
   trendingTopics |-> trending]

ForYouAggregate(r) ==
  /\ req[r].pc = "forYouAggregate"
  /\ \/ \E res \in TrendingTags :
          req' = [req EXCEPT ![r] = Respond(req[r], ForYouData(req[r], res))]
     \/ req' = [req EXCEPT ![r] = Catch(req[r], "store", "Content.aggregate failed")]
  /\ UNCHANGED <<activity, search, message, content, user, now>>

(***************************************************************************)
(* getLiveContent                                                          *)
(***************************************************************************)
\* A comparison with a Date matches only documents that have the field.
\* {isLive: true, startTime: {$lte: now}, endTime: {$gt: now}}
IsCurrent(c, t) ==
  /\ c.isLive
  /\ c.startTime # NoDate /\ c.startTime <= t
  /\ c.endTime # NoDate /\ c.endTime > t

\* {isLive: true, startTime: {$gt: now}}
IsUpcoming(c, t) == c.isLive /\ c.startTime # NoDate /\ c.startTime > t

\* {isLive: true, endTime: {$lt: now}}
IsRecording(c, t) == c.isLive /\ c.endTime # NoDate /\ c.endTime < t

\* Content.find(current): no sort, no limit
CurrentLiveEvents(t) == SeqOfSet({i \in Ids(content) : IsCurrent(content[i], t)})

LiveFindCurrent(r) ==
  /\ req[r].pc = "liveFindCurrent"
  /\ \/ req' = [req EXCEPT ![r].pc = "liveFindUpcoming",
                            ![r].loc.currentLiveEvents =
                               CurrentLiveEvents(req[r].loc.nowDate)]
     \/ req' = [req EXCEPT ![r] = Catch(req[r], "store", "Content.find failed")]
  /\ UNCHANGED <<activity, search, message, content, user, now>>

\* Content.find(upcoming).sort({startTime: 1}).limit(5)
UpcomingEvents(t) ==
  SortAscLimit({i \in Ids(content) : IsUpcoming(content[i], t)},
               [i \in Ids(content) |-> content[i].startTime],
               UpcomingLimit)

LiveFindUpcoming(r) ==
  /\ req[r].pc = "liveFindUpcoming"
  /\ \/ \E res \in UpcomingEvents(req[r].loc.nowDate) :
          req' = [req EXCEPT ![r].pc = "liveFindRecordings",
                             ![r].loc.upcomingEvents = res]
     \/ req' = [req EXCEPT ![r] = Catch(req[r], "store", "Content.find failed")]
  /\ UNCHANGED <<activity, search, message, content, user, now>>

\* Content.find(recordings).sort({endTime: -1}).limit(5)
RecentRecordings(t) ==
  SortDescLimit({i \in Ids(content) : IsRecording(content[i], t)},
                [i \in Ids(content) |-> content[i].endTime],
                RecordingsLimit)

\* recording.startTime.toISOString() throws on a recording without startTime.
RecordingThrows(c) == c.startTime = NoDate

\* The random participants count and the duration labels are display
\* placeholders and are left out of the payload.
LiveData(rq, recordings) ==
  [currentLiveEvents |-> rq.loc.currentLiveEvents,
   upcomingEvents |-> rq.loc.upcomingEvents,
   recentRecordings |-> recordings]

LiveFindRecordings(r) ==
  /\ req[r].pc = "liveFindRecordings"
  /\ \/ \E res \in RecentRecordings(req[r].loc.nowDate) :
          req' = [req EXCEPT ![r] =
                    IF \E k \in 1..Len(res) : RecordingThrows(content[res[k]])
                    THEN Catch(req[r], "thrown", "TypeError: toISOString of undefined")
                    ELSE Respond(req[r], LiveData(req[r], res))]
     \/ req' = [req EXCEPT ![r] = Catch(req[r], "store", "Content.find failed")]
  /\ UNCHANGED <<activity, search, message, content, user, now>>

(***************************************************************************)
(* Documents the stores start with.  ContentSchema requires only title     *)
(* and type; MessageSchema requires sender, recipient, subject, content.   *)
(***************************************************************************)
Article(title, createdAt) ==
  [title |-> title, type |-> "article", description |-> <<"b">>,
   content |-> <<"b", "b", "b">>, author |-> 1, tags |-> {<<"b">>},
   isLive |-> FALSE, startTime |-> NoDate, endTime |-> NoDate,
   createdAt |-> createdAt]

Tutorial(tag, createdAt) ==
  [title |-> <<"b">>, type |-> "tutorial", description |-> <<>>,
   content |-> <<"b", "b">>, author |-> 1, tags |-> {tag},
   isLive |-> FALSE, startTime |-> NoDate, endTime |-> NoDate,
   createdAt |-> createdAt]

News(description, createdAt) ==
  [title |-> <<"b">>, type |-> "news", description |-> description,
   content |-> Undefined, author |-> 0, tags |-> {},
   isLive |-> FALSE, startTime |-> NoDate, endTime |-> NoDate,
   createdAt |-> createdAt]

Notice(createdAt) ==
  [title |-> <<"B">>, type |-> "notification", description |-> Undefined,
   content |-> Undefined, author |-> 0, tags |-> {},
   isLive |-> FALSE, startTime |-> NoDate, endTime |-> NoDate,
   createdAt |-> createdAt]

Event(startTime, endTime, createdAt) ==
  [title |-> <<"A">>, type |-> "event", description |-> <<"a">>,
   content |-> Undefined, author |-> 2, tags |-> {<<"a">>, <<"b">>},
   isLive |-> TRUE, startTime |-> startTime, endTime |-> endTime,
   createdAt |-> createdAt]

Account(name, email) == [name |-> name, email |-> email]

TwoUsers == <<Account(<<"a">>, <<"a", "@">>), Account(<<"B">>, <<"b", "@">>)>>

Mail(sender, recipient, isRead, createdAt) ==
  [sender |-> sender, recipient |-> recipient, subject |-> <<"a">>,
   content |-> <<"a", "b">>, isRead |-> isRead, createdAt |-> createdAt]

PriorActivity(userId, timestamp) ==
  [user |-> userId, type |-> "login", details |-> <<>>, timestamp |-> timestamp]

PriorSearch(userId, query, timestamp, results) ==
  [user |-> userId, query |-> query, timestamp |-> timestamp, results |-> results]

InitRequests == req = [r \in Reqs |-> IdleReq] /\ now = 0

\* Every step of every handler.
Handler(r) ==
  \/ LogActivity(r)
  \/ HomeFindActivity(r) \/ HomeCountUnread(r) \/ HomeFindContent(r)
  \/ SearchCreate(r) \/ SearchFindRecent(r) \/ SearchAggregate(r)
  \/ SearchFindContent(r) \/ SearchFindUsers(r) \/ SearchUpdate(r)
  \/ InboxFind(r)
  \/ ForYouFindActivity(r) \/ ForYouFindSearch(r) \/ ForYouFindContent(r)
  \/ ForYouFindUsers(r) \/ ForYouAggregate(r)
  \/ LiveFindCurrent(r) \/ LiveFindUpcoming(r) \/ LiveFindRecordings(r)

(***************************************************************************)
(* The dashboard as a whole: the five routes, two requests in flight.       *)
(***************************************************************************)
Ops == {"home", "search", "inbox", "foryou", "live"}

Init ==
  /\ InitRequests
  /\ user = TwoUsers
  /\ activity = <<>>
  /\ search = <<PriorSearch(1, <<"a">>, 0, 1)>>
  /\ message = <<Mail(2, 1, FALSE, 0), Mail(1, 2, TRUE, 1)>>
  /\ content \in {<<Article(<<"a", "b">>, 0), Event(0, 1, 1)>>,
                  <<Article(<<"a", "b">>, 0), Notice(1), Event(NoDate, 0, 2)>>}

\* The inputs of a request: the authenticated user and the query parameter.
OneUser == {1}

TwoCallers == {1, 2}

NoQuery == {Undefined}

AnyQuery == {Undefined, <<>>, <<"a">>, <<"(">>}

ArriveAny(r) == Arrive(r, Ops, OneUser, AnyQuery)

Next == Tick \/ \E r \in Pair : ArriveAny(r) \/ Handler(r)

Spec == Init /\ [][Next]_vars

(***************************************************************************)
(* The five routes, one handler followed from arrival to response.         *)
(***************************************************************************)
ArriveEither(r) == Arrive(r, Ops, TwoCallers, AnyQuery)

NextOps == Tick \/ \E r \in Solo : ArriveEither(r) \/ Handler(r)

SpecOps == Init /\ [][NextOps]_vars

(***************************************************************************)
(* Properties of the dashboard as a whole                                  *)
(***************************************************************************)
Succeeded(rq) == rq.pc = "done" /\ Len(rq.sent) = 1 /\ rq.sent[1].success

\* C2: in each of the five operations, when the Activity append fails and no
\* other store access fails, the request ends with a success response.
LoggingFailureNeverFailsRequest ==
  \A r \in Reqs :
    (req[r].pc = "done" /\ req[r].logOutcome = "failed" /\ req[r].errKind # "store")
      => Succeeded(req[r])

\* The store access a handler is waiting for at each position.
AccessError(pc) ==
  CASE pc = "homeFindActivity" -> "Activity.find failed"
    [] pc = "homeCountUnread" -> "Message.countDocuments failed"
    [] pc = "homeFindContent" -> "Content.find failed"
    [] pc = "searchCreate" -> "Search.create failed"
    [] pc = "searchFindRecent" -> "Search.find failed"
    [] pc = "searchAggregate" -> "Search.aggregate failed"
    [] pc = "searchFindContent" -> "Content.find failed"
    [] pc = "searchFindUsers" -> "User.find failed"
    [] pc = "searchUpdate" -> "Search.findOneAndUpdate failed"
    [] pc = "inboxFind" -> "Message.find failed"
    [] pc = "forYouFindActivity" -> "Activity.find failed"
    [] pc = "forYouFindSearch" -> "Search.find failed"
    [] pc = "forYouFindContent" -> "Content.find failed"
    [] pc = "forYouFindUsers" -> "User.find failed"
    [] pc = "forYouAggregate" -> "Content.aggregate failed"
    [] pc = "liveFindCurrent" -> "Content.find failed"
    [] pc = "liveFindUpcoming" -> "Content.find failed"
    [] pc = "liveFindRecordings" -> "Content.find failed"
    [] OTHER -> "none"

\* C3: when a store access other than the activity-log append fails, the
\* operation stops at that access: that step writes nothing, sends the one
\* response of the request, which is {success: false, message: <the access's
\* error>} with status 500 and no data, and the request takes no further step
\* (no later access, no retry, no second response).
StoreFailureAborts ==
  [][\A r \in Reqs :
       /\ req[r].pc = "done" => req'[r] = req[r]
       /\ (req[r].errKind # "store" /\ req'[r].errKind = "store") =>
            /\ req[r].pc # "log"
            /\ req[r].sent = <<>>
            /\ req'[r].pc = "done"
            /\ req'[r].sent = <<[status |-> StatusError, success |-> FALSE,
                                 message |-> AccessError(req[r].pc)]>>
            /\ activity' = activity
            /\ search' = search
       /\ req'[r].pc = "done" => Len(req'[r].sent) = 1]_vars

\* A search whose last store access, the result-count update, failed after
\* the earlier ones (the append of the SearchRecord among them) succeeded.
StoreFailureWitness ==
  \E r \in Reqs :
    /\ req[r].errKind = "store"
    /\ req[r].searchDoc # 0
    /\ req[r].sent = <<[status |-> StatusError, success |-> FALSE,
                        message |-> "Search.findOneAndUpdate failed"]>>

\* The page name each view is logged under.
PageName(op) ==
  CASE op = "home" -> <<"dashboard home">>
    [] op = "inbox" -> <<"inbox">>
    [] op = "foryou" -> <<"for you content">>
    [] op = "live" -> <<"live content">>

PcRank(pc) ==
  CASE pc = "idle" -> 0
    [] pc = "log" -> 1
    [] pc \in {"homeFindActivity", "searchCreate", "inboxFind",
               "forYouFindActivity", "liveFindCurrent"} -> 2
    [] pc \in {"homeCountUnread", "searchFindRecent", "forYouFindSearch",
               "liveFindUpcoming"} -> 3
    [] pc \in {"homeFindContent", "searchAggregate", "forYouFindContent",
               "liveFindRecordings"} -> 4
    [] pc \in {"searchFindContent", "forYouFindUsers"} -> 5
    [] pc \in {"searchFindUsers", "forYouAggregate"} -> 6
    [] pc = "searchUpdate" -> 7
    [] pc = "done" -> 8

\* What the step of request rq may write, and must write when it succeeds.
WritesOfStep(rq, after) ==
  /\ PcRank(after.pc) > PcRank(rq.pc)
  /\ rq.pc = "log" =>
       /\ search' = search
       /\ rq.op = "search" => Truthy(rq.query)
       /\ \/ after.logOutcome = "failed" /\ activity' = activity
          \/ /\ after.logOutcome = "ok"
             /\ activity' =
                  Append(activity,
                         [user |-> rq.userId,
                          type |-> IF rq.op = "search" THEN "search" ELSE "view",
                          details |-> IF rq.op = "search" THEN rq.query
                                      ELSE PageName(rq.op),
                          timestamp |-> now])
  /\ rq.pc = "searchCreate" =>
       /\ activity' = activity
       /\ rq.op = "search" /\ Truthy(rq.query)
       /\ \/ after.errKind = "store" /\ search' = search
          \/ /\ after.errKind = "none"
             /\ search' = Append(search, [user |-> rq.userId, query |-> rq.query,
                                          timestamp |-> now, results |-> 0])
  /\ rq.pc = "searchUpdate" =>
       /\ activity' = activity
       /\ rq.op = "search" /\ Truthy(rq.query)
       /\ \/ after.errKind = "store" /\ search' = search
          \/ /\ after.errKind = "none"
             /\ \E i \in Ids(search) :
                  /\ search[i].user = rq.userId /\ search[i].query = rq.query
                  /\ search' = [search EXCEPT ![i].results = Len(rq.loc.results)]
  /\ rq.pc \notin {"log", "searchCreate", "searchUpdate"} =>
       activity' = activity /\ search' = search
  \* every view, and every search with a query, goes through the log step
  /\ (after.pc # "idle" /\ after.pc # "log"
        /\ (after.op # "search" \/ Truthy(after.query))) =>
       after.logOutcome # "none"

\* C9: the write set of the operations.  A view (home, inbox, for-you, live)
\* appends one ActivityRecord {user, 'view', page name} - none when the append
\* fails - and writes nothing else; a search with a query appends one
\* ActivityRecord {user, 'search', query}, creates one SearchRecord {user,
\* query} and sets the resultCount of one SearchRecord of that {user, query};
\* each of these writes happens at most once per request.  No existing
\* ActivityRecord changes or disappears, and no Message, ContentItem or User
\* is created, changed or deleted.
WriteSetExact ==
  [][/\ message' = message /\ content' = content /\ user' = user
     /\ \A i \in Ids(activity) : i \in Ids(activity') /\ activity'[i] = activity[i]
     /\ req' = req => (activity' = activity /\ search' = search)
     /\ \A r \in Reqs : req'[r] # req[r] => WritesOfStep(req[r], req'[r])]_vars

\* A completed search with a query whose three writes all took effect, with
\* the unread message still unread.
WriteSetWitness ==
  \E r \in Reqs :
    /\ Succeeded(req[r])
    /\ req[r].op = "search"
    /\ req[r].logDoc \in Ids(activity)
    /\ activity[req[r].logDoc].type = "search"
    /\ req[r].searchDoc \in Ids(search)
    /\ req[r].updatedDoc \in Ids(search)
    /\ ~message[1].isRead

(***************************************************************************)
(* The home page over an activity log that already holds records           *)
(***************************************************************************)
\* Prior records: `mine` of every `every` belong to user 1, the others to
\* user 2; timestamps ascend, descend or come in pairs, all at most 0.
PriorLog(n, every, order) ==
  [i \in 1..n |->
     PriorActivity(IF i % every = 0 THEN 2 ELSE 1,
                   CASE order = "ascending" -> i - n
                     [] order = "descending" -> 0 - i
                     [] order = "paired" -> 0 - (i \div 2))]

InitHome ==
  /\ InitRequests
  /\ user = TwoUsers
  /\ search = <<>>
  /\ message = <<Mail(2, 1, FALSE, 0), Mail(2, 1, TRUE, 0), Mail(1, 2, FALSE, 0)>>
  /\ content = <<Article(<<"a">>, 0), News(<<"a">>, 1)>>
  /\ activity \in {PriorLog(0, 1, "ascending"),
                   PriorLog(HomeActivityLimit - 1, MaxActivity + 1, "ascending"),
                   PriorLog(MaxActivity, MaxActivity + 1, "descending"),
                   PriorLog(MaxActivity + 2, 3, "paired")}

HomeOnly == {"home"}

ArriveHome(r) == Arrive(r, HomeOnly, TwoCallers, NoQuery)

NextHome ==
  \/ Tick
  \/ \E r \in Solo :
       \/ ArriveHome(r) \/ LogActivity(r)
       \/ HomeFindActivity(r) \/ HomeCountUnread(r) \/ HomeFindContent(r)

SpecHome == InitHome /\ [][NextHome]_vars

\* docs lists, newest first, the min(k, |S|) documents of S with the greatest
\* key: no document of S left out has a greater key than one listed.
IsNewestOf(docs, S, key, k) ==
  /\ Len(docs) = Min(k, Cardinality(S))
  /\ \A a \in 1..Len(docs) : docs[a] \in S
  /\ \A a, b \in 1..Len(docs) : a < b => (docs[a] # docs[b] /\ key[docs[a]] >= key[docs[b]])
  /\ \A x \in S : (\A a \in 1..Len(docs) : docs[a] # x) =>
                    \A a \in 1..Len(docs) : key[x] <= key[docs[a]]

\* C6: the home page's recent activity is read after the log attempt of the
\* same call has ended (appended or failed), and is exactly the min(5, n)
\* ActivityRecords of the calling user with the greatest timestamps, newest
\* first, n counting the user's records at the read - the call's own record,
\* when its append succeeded, among them; the response carries these records.
HomeRecentActivityNewestFive ==
  [][\A r \in Reqs :
       /\ (req[r].pc = "homeFindActivity" /\ req'[r].pc = "homeCountUnread") =>
            LET mine == {i \in Ids(activity) : activity[i].user = req[r].userId}
            IN /\ req[r].logOutcome \in {"ok", "failed"}
               /\ req[r].logOutcome = "ok" => req[r].logDoc \in mine
               /\ IsNewestOf(req'[r].loc.recentActivities, mine,
                             [i \in Ids(activity) |-> activity[i].timestamp],
                             5)
       /\ (req[r].pc = "homeFindContent" /\ Succeeded(req'[r])) =>
            /\ Len(req'[r].sent[1].data.recentActivity) = Len(req[r].loc.recentActivities)
            /\ \A k \in 1..Len(req[r].loc.recentActivities) :
                 /\ req'[r].sent[1].data.recentActivity[k] =
                      activity[req[r].loc.recentActivities[k]]
                 /\ req'[r].sent[1].data.recentActivity[k].user = req[r].userId]_vars

\* A user with more than five records, some of them of the other user's
\* interleaved, gets five, the first of them the record this call logged.
HomeRecentActivityWitness ==
  \E r \in Reqs :
    /\ Succeeded(req[r])
    /\ req[r].logOutcome = "ok"
    /\ Cardinality({i \in Ids(activity) : activity[i].user = req[r].userId}) > 5
    /\ \E i \in Ids(activity) : activity[i].user # req[r].userId
    /\ Len(req[r].sent[1].data.recentActivity) = 5
    /\ req[r].sent[1].data.recentActivity[1] = activity[req[r].logDoc]

(***************************************************************************)
(* Searches for the same text by the same user, in flight together         *)
(***************************************************************************)
InitRace ==
  /\ InitRequests
  /\ user = TwoUsers
  /\ activity = <<>>
  /\ message = <<>>
  /\ content = <<Article(<<"a">>, 0)>>
  /\ search \in {<<>>, <<PriorSearch(1, <<"a">>, 0 - 1, 7)>>}

SearchOnly == {"search"}

SameQuery == {<<"a">>}

ArriveSame(r) == Arrive(r, SearchOnly, OneUser, SameQuery)

NextRace ==
  \/ Tick
  \/ \E r \in Pair :
       \/ ArriveSame(r) \/ LogActivity(r)
       \/ SearchCreate(r) \/ SearchFindRecent(r) \/ SearchAggregate(r)
       \/ SearchFindContent(r) \/ SearchFindUsers(r) \/ SearchUpdate(r)

SpecRace == InitRace /\ [][NextRace]_vars

SearchedWithQuery(rq) ==
  Succeeded(rq) /\ rq.op = "search" /\ rq.query # Undefined /\ rq.query # <<>>

\* C8: a successful search with a query writes its result count onto the
\* SearchRecord it created itself, also when the user has older records with
\* the same text.
UpdateHitsCreatedRecord ==
  \A r \in Reqs :
    SearchedWithQuery(req[r]) => req[r].updatedDoc = req[r].searchDoc

\* C10: when two completed searches of the same user for the same text both
\* set the count on the same SearchRecord, one of the two records they
\* created is not that record, and - no update having selected it - it still
\* holds the default count 0.
SameTargetLeavesDefault ==
  \A r1, r2 \in Reqs :
    (/\ r1 # r2
     /\ SearchedWithQuery(req[r1]) /\ SearchedWithQuery(req[r2])
     /\ req[r1].userId = req[r2].userId /\ req[r1].query = req[r2].query
     /\ req[r1].updatedDoc = req[r2].updatedDoc)
    => \E r \in {r1, r2} :
         /\ req[r].searchDoc # req[r].updatedDoc
         /\ (\A p \in Reqs : req[p].updatedDoc # req[r].searchDoc)
              => search[req[r].searchDoc].results = DefaultResults

\* Two searches for "a" on an empty history have both completed.  The second
\* created its record between the first one's create and update (the first
\* one's recent searches already list two), both updates selected the first
\* record, and the second record holds 0 although its search returned results.
RaceWitness ==
  \E r1, r2 \in Reqs :
    /\ SearchedWithQuery(req[r1]) /\ SearchedWithQuery(req[r2])
    /\ req[r1].userId = req[r2].userId /\ req[r1].query = req[r2].query
    /\ Len(search) = 2
    /\ req[r1].searchDoc = 1 /\ req[r2].searchDoc = 2
    /\ Len(req[r1].sent[1].data.recentSearches) = 2
    /\ req[r1].updatedDoc = 1 /\ req[r2].updatedDoc = 1
    /\ search[2].results = 0
    /\ Len(req[r2].sent[1].data.results) > 0

(***************************************************************************)
(* The inbox, and the home page's unread count, over a filled mailbox      *)
(***************************************************************************)
\* n messages: every `every`-th is addressed to user 2, the others to user 1;
\* the two oldest arrived together.
Mailbox(n, every, unread) ==
  [i \in 1..n |->
     Mail(IF i % every = 0 THEN 1 ELSE 2,
          IF i % every = 0 THEN 2 ELSE 1,
          CASE unread = "all" -> FALSE
            [] unread = "none" -> TRUE
            [] unread = "oldest" -> i > 2
            [] unread = "alternate" -> i % 2 = 0,
          IF i <= 2 THEN 1 ELSE i)]

InitInbox ==
  /\ InitRequests
  /\ user = TwoUsers
  /\ activity = <<>>
  /\ search = <<>>
  /\ content = <<Article(<<"a">>, 0)>>
  /\ \E n \in {0, 1, InboxLimit, MaxMessage},
        every \in {MaxMessage + 1, 4},
        unread \in {"all", "none", "oldest", "alternate"} :
       message = Mailbox(n, every, unread)

HomeOrInbox == {"home", "inbox"}

ArriveMail(r) == Arrive(r, HomeOrInbox, TwoCallers, NoQuery)

NextInbox ==
  \/ Tick
  \/ \E r \in Pair :
       \/ ArriveMail(r) \/ LogActivity(r)
       \/ HomeFindActivity(r) \/ HomeCountUnread(r) \/ HomeFindContent(r)
       \/ InboxFind(r)

SpecInbox == InitInbox /\ [][NextInbox]_vars

\* C7: the inbox holds at most 20 messages, all addressed to the caller, the
\* newest of the caller's messages, newest first; unreadCount is the number of
\* returned messages that are unread (so at most 20); a caller without
\* messages gets unreadCount 0 and an empty list.
InboxPageAndUnreadCount ==
  \A r \in Reqs :
    (Succeeded(req[r]) /\ req[r].op = "inbox") =>
      LET data == req[r].sent[1].data
          mine == {i \in Ids(message) : message[i].recipient = req[r].userId}
      IN /\ Len(data.messages) <= 20
         /\ IsNewestOf([k \in 1..Len(data.messages) |-> data.messages[k].id], mine,
                       [i \in Ids(message) |-> message[i].createdAt], 20)
         /\ \A k \in 1..Len(data.messages) :
              /\ message[data.messages[k].id].recipient = req[r].userId
              /\ data.messages[k].isRead = message[data.messages[k].id].isRead
              /\ data.messages[k].timestamp = message[data.messages[k].id].createdAt
         /\ data.unreadCount =
              Cardinality({k \in 1..Len(data.messages) : ~data.messages[k].isRead})
         /\ data.unreadCount <= 20
         /\ mine = {} => (data.unreadCount = 0 /\ data.messages = <<>>)

\* The same user has been answered by the home page and by the inbox: the
\* inbox page is full and its unreadCount is smaller than the unread count
\* the home page reports.
InboxWitness ==
  \E r1, r2 \in Reqs :
    /\ Succeeded(req[r1]) /\ req[r1].op = "inbox"
    /\ Succeeded(req[r2]) /\ req[r2].op = "home"
    /\ req[r1].userId = req[r2].userId
    /\ Len(req[r1].sent[1].data.messages) = 20
    /\ req[r1].sent[1].data.unreadCount < req[r2].sent[1].data.quickStats.messages

(***************************************************************************)
(* The search page over filled Content, User and Search collections        *)
(***************************************************************************)
\* The first nc documents match the query "a" (by title, by description or by
\* a tag in turn); the others do not.
Library(nc) ==
  [i \in 1..MaxContent |->
     IF i > nc THEN Notice(i)
     ELSE CASE i % 3 = 0 -> Article(<<"b", "a">>, i)
            [] i % 3 = 1 -> News(<<"A", "b">>, i)
            [] i % 3 = 2 -> Tutorial(<<"a">>, i)]

\* The first nu users match "a" (by name or by email in turn).
Directory(nu) ==
  [i \in 1..MaxUser |->
     IF i > nu THEN Account(<<"b">>, <<"b", "@">>)
     ELSE IF i % 2 = 0 THEN Account(<<"b", "a">>, <<"b", "@">>)
          ELSE Account(<<"b">>, <<"A", "@">>)]

QueryPool ==
  <<(<<"a">>), (<<"b">>), (<<"a", "b">>), (<<"b", "a">>), (<<"A">>), (<<".">>),
    (<<"a", "a">>), (<<"b", "b">>)>>

\* Five searches for the first text, four for the second, three, two, then
\* one for each further text.
TextOf(i) ==
  QueryPool[IF i <= 5 THEN 1 ELSE IF i <= 9 THEN 2 ELSE IF i <= 12 THEN 3
            ELSE IF i <= 14 THEN 4 ELSE i - 10]

\* n prior searches, the first the newest; every `every`-th is user 2's.
History(n, every) ==
  [i \in 1..n |->
     PriorSearch(IF i % every = 0 THEN 2 ELSE 1, TextOf(i),
                 IF i = 6 THEN 0 - 5 ELSE 0 - i, i)]

InitSearch ==
  /\ InitRequests
  /\ activity = <<>>
  /\ message = <<>>
  /\ \/ content = Library(0) /\ user = Directory(0)
        /\ search = History(0, 1)
     \/ content = Library(ContentResultLimit) /\ user = Directory(UserResultLimit)
        /\ search = History(MaxSearch - 4, 3)
     \/ content = Library(MaxContent) /\ user = Directory(MaxUser)
        /\ search = History(MaxSearch, MaxSearch + 1)
     \/ content = Library(MaxContent) /\ user = Directory(0)
        /\ search = History(MaxSearch, 3)

EmptyOrText == {Undefined, <<>>, <<"A">>}

ArriveSearch(r) == Arrive(r, SearchOnly, OneUser, EmptyOrText)

NextSearch ==
  \/ Tick
  \/ \E r \in Solo :
       \/ ArriveSearch(r) \/ LogActivity(r)
       \/ SearchCreate(r) \/ SearchFindRecent(r) \/ SearchAggregate(r)
       \/ SearchFindContent(r) \/ SearchFindUsers(r) \/ SearchUpdate(r)

SpecSearch == InitSearch /\ [][NextSearch]_vars

\* C4: a search without a query (absent or empty) writes nothing - no
\* SearchRecord created or updated, no ActivityRecord appended - and answers
\* with an empty result list, the queries of the caller's up to 5 most recent
\* SearchRecords and the up to 5 most frequent query texts of all users, both
\* read from the SearchRecords as they are.
EmptyQueryOnlyReads ==
  [][\A r \in Reqs :
       (/\ req'[r].op = "search"
        /\ (req'[r].query = Undefined \/ req'[r].query = <<>>)
        /\ req'[r] # req[r]) =>
         /\ activity' = activity
         /\ search' = search
         /\ req'[r].pc \in {"searchFindRecent", "searchAggregate", "done"}
         /\ req'[r].pc = "searchAggregate" =>
              IsNewestOf(req'[r].loc.recentSearches,
                         {i \in Ids(search) : search[i].user = req[r].userId},
                         [i \in Ids(search) |-> search[i].timestamp], 5)
         /\ Succeeded(req'[r]) =>
              LET data == req'[r].sent[1].data
                  texts == {search[i].query : i \in Ids(search)}
              IN /\ data.results = <<>>
                 /\ Len(data.recentSearches) = Len(req[r].loc.recentSearches)
                 /\ \A k \in 1..Len(data.recentSearches) :
                      data.recentSearches[k] = search[req[r].loc.recentSearches[k]].query
                 /\ IsNewestOf(data.popularSearches, texts,
                               [q \in texts |->
                                  Cardinality({i \in Ids(search) : search[i].query = q})],
                               5)]_vars

\* An empty query answered from a history of more than five searches of the
\* caller and more than five texts: five recent and five popular texts, the
\* most searched first, and the stores as they were.
EmptyQueryWitness ==
  \E r \in Reqs :
    /\ Succeeded(req[r]) /\ req[r].op = "search" /\ req[r].query = <<>>
    /\ Cardinality({i \in Ids(search) : search[i].user = req[r].userId}) > 5
    /\ \E i \in Ids(search) : search[i].user # req[r].userId
    /\ Cardinality({search[i].query : i \in Ids(search)}) > 5
    /\ Len(req[r].sent[1].data.recentSearches) = 5
    /\ Len(req[r].sent[1].data.popularSearches) = 5
    /\ req[r].sent[1].data.popularSearches[1] = <<"a">>
    /\ req[r].sent[1].data.results = <<>>
    /\ activity = <<>>

\* C5: a search with a query returns at most 15 results: at most 10 content
\* results, then at most 5 user results, and the matchReason of each contains
\* the query text.
SearchResultsBounded ==
  \A r \in Reqs :
    SearchedWithQuery(req[r]) =>
      LET results == req[r].sent[1].data.results
      IN /\ Len(results) <= 15
         /\ \E nc \in 0..Len(results) :
              /\ nc <= 10
              /\ Len(results) - nc <= 5
              /\ \A k \in 1..Len(results) :
                   results[k].type = IF k <= nc THEN "content" ELSE "user"
         /\ \A k \in 1..Len(results) : Contains(results[k].matchReason, req[r].query)

\* More than 10 content items and more than 5 users match: 15 results.
SearchResultsWitness ==
  \E r \in Reqs :
    /\ SearchedWithQuery(req[r])
    /\ Cardinality({i \in Ids(content) : ContentMatches(content[i], req[r].query)}) > 10
    /\ Cardinality({i \in Ids(user) : UserMatches(user[i], req[r].query)}) > 5
    /\ Len(req[r].sent[1].data.results) = 15
    /\ req[r].sent[1].data.results[10].type = "content"
    /\ req[r].sent[1].data.results[11].type = "user"

(***************************************************************************)
(* The live page over live events with a start before their end            *)
(***************************************************************************)
Schedule == {Event(s, e, 0) : s \in 0..MaxClock, e \in 1..(MaxClock + 1)}

InitLive ==
  /\ InitRequests
  /\ activity = <<>>
  /\ search = <<>>
  /\ message = <<>>
  /\ user = TwoUsers
  /\ content \in [1..MaxLive -> {c \in Schedule : c.startTime < c.endTime}]

LiveOnly == {"live"}

ArriveLive(r) == Arrive(r, LiveOnly, OneUser, NoQuery)

NextLive ==
  \/ Tick
  \/ \E r \in Solo :
       \/ ArriveLive(r) \/ LogActivity(r)
       \/ LiveFindCurrent(r) \/ LiveFindUpcoming(r) \/ LiveFindRecordings(r)

SpecLive == InitLive /\ [][NextLive]_vars

\* C1: for the value of now a live request has fixed, every ContentItem with
\* isLive = true satisfies the selection condition of exactly one of the three
\* sets: current events, upcoming events, recent recordings.
LiveClassificationIsPartition ==
  \A r \in Reqs :
    (req[r].op = "live" /\ req[r].loc.nowDate # NoDate) =>
      \A i \in Ids(content) :
        content[i].isLive =>
          LET t == req[r].loc.nowDate
          IN (IF IsCurrent(content[i], t) THEN 1 ELSE 0)
             + (IF IsUpcoming(content[i], t) THEN 1 ELSE 0)
             + (IF IsRecording(content[i], t) THEN 1 ELSE 0) = 1
=============================================================================
